---- MODULE Spec2Model ----
(***************************************************************************)
(* rush: a grid-addressed glyph renderer with a cell cursor.               *)
(*                                                                         *)
(* The model follows src/src/main.rs: WindowState and its methods, the     *)
(* main loop (main / tick), the render pass (render_screen_buffer), the    *)
(* key tables and the glyph loader (load_font_chars).  Characters are      *)
(* their ASCII codes, keys are their GLFW key codes, Option<char> is a     *)
(* sequence of length 0 (None) or 1 (Some).                                *)
(***************************************************************************)
EXTENDS Integers, Sequences, FiniteSets, TLC

VARIABLES
    pc,            \* position of the program: main's loop test, the steps of tick
    ws,            \* app.ws : WindowState
    queue,         \* app.ts.events : key events received and not yet flushed
    should_close,  \* the window's should-close flag
    viewport,      \* the GL viewport <<width, height>> set by gl::Viewport
    frame,         \* draw calls issued by the current iteration of the loop
    script,        \* keys the scripted keyboard has still to type
    face,          \* the font face handed to load_font_chars (per-glyph metrics)
    font,          \* locals and result of load_font_chars
    quad           \* a glyph handed to calculate_textured_quad_vertices, and its quad

vars == <<pc, ws, queue, should_close, viewport, frame, script, face, font, quad>>

----------------------------------------------------------------------------
(* Bounds of the model *)

MaxBuf == 4          \* longest buffer the keyboard is allowed to build
MaxQueue == 2        \* most key events waiting in the receiver
RepertoireSize == 3  \* glyphs loaded by the bounded font loader (127 in the code)
CloseScriptLen == 3  \* keys typed by the keyboard of the cancellation runs

----------------------------------------------------------------------------
(* Program constants *)

InitWidth == 800
InitHeight == 600
RenderWidth == 800   \* window_width handed to calculate_textured_quad_vertices
RenderHeight == 600  \* window_height handed to calculate_textured_quad_vertices

Key_Space == 32
Key_Apostrophe == 39
Key_Comma == 44
Key_Minus == 45
Key_Period == 46
Key_Slash == 47
Key_Num0 == 48
Key_Num1 == 49
Key_Num9 == 57
Key_Semicolon == 59
Key_Equal == 61
Key_A == 65
Key_Z == 90
Key_LeftBracket == 91
Key_Backslash == 92
Key_RightBracket == 93
Key_GraveAccent == 96
Key_Escape == 256
Key_Enter == 257
Key_Tab == 258
Key_Backspace == 259
Key_LeftShift == 340

None == <<>>
Some(c) == <<c>>
unwrap(o) == o[1]

\* a glyph cache holding the printable characters only
Repertoire_printable == 32..126

\* characters.insert(char::from(c as u8), ..) for c in 0..127
Repertoire == 0..126

----------------------------------------------------------------------------
(* WindowState *)

\* WindowState::new
WindowState_new(width, height, char_dimensions) ==
    [ width |-> width,
      height |-> height,
      grid |-> [ cell_width |-> char_dimensions.width,
                 cell_height |-> char_dimensions.height,
                 rows |-> height \div char_dimensions.height,
                 cols |-> width \div char_dimensions.width ],
      buffer |-> <<>>,
      display_offset |-> 0,
      next_cell |-> <<0, 0>> ]

\* advance, wrapping one column too late
advance_wrap_late(w) ==
    IF w.next_cell[2] = w.grid.cols
    THEN [w EXCEPT !.next_cell = <<w.next_cell[1] + 1, 0>>]
    ELSE [w EXCEPT !.next_cell = <<w.next_cell[1], w.next_cell[2] + 1>>]

\* WindowState::advance
advance(w) ==
    IF w.next_cell[2] = w.grid.cols - 1
    THEN [w EXCEPT !.next_cell = <<w.next_cell[1] + 1, 0>>]
    ELSE [w EXCEPT !.next_cell = <<w.next_cell[1], w.next_cell[2] + 1>>]

\* scroll, by one character instead of one row
scroll_one_char(w) == [w EXCEPT !.display_offset = w.display_offset + 1]

\* WindowState::scroll
scroll(w) == [w EXCEPT !.display_offset = w.display_offset + w.grid.cols]

\* reset_cell, forgetting to reset
reset_cell_noop(w) == w

\* WindowState::reset_cell
reset_cell(w) == [w EXCEPT !.next_cell = <<0, 0>>]

\* WindowState::update_size (no caller in the program)
update_size(w, width, height) ==
    [w EXCEPT !.width = width,
              !.height = height,
              !.grid.rows = height \div w.grid.cell_height,
              !.grid.cols = width \div w.grid.cell_width]

\* WindowState::get_next_cell
get_next_cell(w) == w.next_cell

----------------------------------------------------------------------------
(* Key tables *)

\* key_to_capital_char
key_to_capital_char(key) ==
    IF key \in Key_A..Key_Z THEN Some(key) ELSE None

\* key_to_char
key_to_char(key) ==
    IF key \in Key_A..Key_Z THEN Some(key + 32) ELSE None

\* key_to_symbol
key_to_symbol(key) ==
    CASE key \in Key_Num0..Key_Num9 -> Some(key)
      [] key = Key_Semicolon -> Some(59)
      [] key = Key_Comma -> Some(44)
      [] key = Key_Period -> Some(46)
      [] key = Key_Slash -> Some(47)
      [] key = Key_Minus -> Some(45)
      [] key = Key_Equal -> Some(61)
      [] key = Key_LeftBracket -> Some(91)
      [] key = Key_RightBracket -> Some(93)
      [] key = Key_Backslash -> Some(92)
      [] key = Key_GraveAccent -> Some(96)
      [] key = Key_Apostrophe -> Some(39)
      [] key = Key_Tab -> Some(9)
      [] key = Key_Enter -> Some(10)
      [] key = Key_Space -> Some(32)
      [] key = Key_Backspace -> Some(95)
      [] OTHER -> None

\* tick: the choice of table by modifiers (the `ch` of the key arm)
key_ch(key, modifiers) ==
    IF "Shift" \in modifiers /\ "CapsLock" \in modifiers
    THEN IF key > Key_Z \/ key < Key_A THEN key_to_symbol(key) ELSE key_to_char(key)
    ELSE IF "Shift" \in modifiers \/ "CapsLock" \in modifiers
    THEN IF key > Key_Z \/ key < Key_A THEN key_to_symbol(key)
         ELSE key_to_capital_char(key)
    ELSE IF key > Key_Z \/ key < Key_A THEN key_to_symbol(key) ELSE key_to_char(key)

\* push, also moving the cursor cell along (incremental cursor tracking)
push_and_advance(w, c) == advance([w EXCEPT !.buffer = Append(w.buffer, c)])

\* String::push
push(w, c) == [w EXCEPT !.buffer = Append(w.buffer, c)]

\* String::pop : removes the last character, nothing on the empty string
pop(w) ==
    IF w.buffer = <<>> THEN w
    ELSE [w EXCEPT !.buffer = SubSeq(w.buffer, 1, Len(w.buffer) - 1)]

----------------------------------------------------------------------------
(* The render pass *)

\* buf[display_offset..] : the slice, defined only for display_offset <= len
slice_from(buf, off) == SubSeq(buf, off + 1, Len(buf))

\* the for loop of render_screen_buffer: one draw per character, then advance
RECURSIVE render_chars(_, _, _)
render_chars(w, chars, draws) ==
    IF chars = <<>>
    THEN [ws |-> w, draws |-> draws, ok |-> TRUE]
    ELSE IF Head(chars) \notin Repertoire
    THEN [ws |-> w, draws |-> draws, ok |-> FALSE]
    ELSE render_chars(advance(w), Tail(chars),
                      Append(draws, <<Head(chars), get_next_cell(w)[1],
                                      get_next_cell(w)[2]>>))

\* render_screen_buffer, scrolling only when the grid is already overfull
render_screen_buffer_no_cursor_room(w0) ==
    LET w1 == reset_cell(w0)
        buf == w1.buffer
    IN  IF w1.display_offset > Len(buf)
        THEN [ws |-> w1, draws |-> <<>>, ok |-> FALSE]
        ELSE LET w2 == IF Len(slice_from(buf, w1.display_offset))
                            > w1.grid.rows * w1.grid.cols
                       THEN scroll(w1) ELSE w1
             IN  IF w2.display_offset > Len(buf)
                 THEN [ws |-> w2, draws |-> <<>>, ok |-> FALSE]
                 ELSE render_chars(w2, slice_from(buf, w2.display_offset), <<>>)

\* render_screen_buffer: ok = FALSE is a panic (slice out of range, or a
\* character without a glyph)
render_screen_buffer(w0) ==
    LET w1 == reset_cell(w0)
        buf == w1.buffer
    IN  IF w1.display_offset > Len(buf)
        THEN [ws |-> w1, draws |-> <<>>, ok |-> FALSE]
        ELSE LET w2 == IF Len(slice_from(buf, w1.display_offset)) + 1
                            > w1.grid.rows * w1.grid.cols
                       THEN scroll(w1) ELSE w1
             IN  IF w2.display_offset > Len(buf)
                 THEN [ws |-> w2, draws |-> <<>>, ok |-> FALSE]
                 ELSE render_chars(w2, slice_from(buf, w2.display_offset), <<>>)

----------------------------------------------------------------------------
(* Quad geometry, in exact arithmetic: an x coordinate is an integer number  *)
(* of 1/scale_x, a y coordinate an integer number of 1/scale_y, with         *)
(* scale_x = 4 * window_width * ncols and scale_y = 5 * window_height * nrows *)
(* (every quotient of the code is a whole number of these units)              *)

\* x >> 6 on a signed integer
shr6(x) == x \div 64

\* calculate_textured_quad_vertices, without the clamp of the glyph width
calculate_textured_quad_vertices_unclamped(cell, character, window_width, window_height, nrows, ncols) ==
    LET row == cell[1]
        col == cell[2]
        cell_width == 8 * window_width
        cell_height == 10 * window_height
        cell_x == -(4 * window_width * ncols) + col * cell_width
        cell_y == 5 * window_height * nrows - (row + 1) * cell_height
        char_width == 8 * character.size[1] * ncols
        char_height0 == 10 * character.size[2] * nrows
        char_height == IF char_height0 > cell_height THEN cell_height ELSE char_height0
        baseline_offset == 10 * character.bearing[2] * nrows
        char_x == cell_x + (cell_width - char_width) \div 2
        char_y == cell_y + baseline_offset - char_height + 2 * window_height
    IN  [ scale_x |-> 4 * window_width * ncols,
          scale_y |-> 5 * window_height * nrows,
          vertices |-> << <<char_x, char_y + char_height, 0, 0>>,
                          <<char_x + char_width, char_y + char_height, 1, 0>>,
                          <<char_x, char_y, 0, 1>>,
                          <<char_x + char_width, char_y, 1, 1>> >> ]

\* calculate_textured_quad_vertices: the four vertices <<x, y, u, v>> (z = 0)
calculate_textured_quad_vertices(cell, character, window_width, window_height, nrows, ncols) ==
    LET row == cell[1]
        col == cell[2]
        \* 2.0 / ncols and 2.0 / nrows
        cell_width == 8 * window_width
        cell_height == 10 * window_height
        \* -1.0 + col * cell_width and 1.0 - (row + 1.0) * cell_height
        cell_x == -(4 * window_width * ncols) + col * cell_width
        cell_y == 5 * window_height * nrows - (row + 1) * cell_height
        \* (advance >> 6) / (window_width * 2.0)
        normalized_advance == 2 * shr6(character.advance) * ncols
        usable_cell_width == cell_width - normalized_advance
        \* size / window * 2.0, then the two clamps
        char_width0 == 8 * character.size[1] * ncols
        char_height0 == 10 * character.size[2] * nrows
        char_width == IF char_width0 > usable_cell_width
                      THEN usable_cell_width ELSE char_width0
        char_height == IF char_height0 > cell_height THEN cell_height ELSE char_height0
        \* bearing.1 / window_height * 2.0
        baseline_offset == 10 * character.bearing[2] * nrows
        char_x == cell_x + (cell_width - char_width) \div 2
        \* cell_height * 0.2 is 2 * window_height units
        char_y == cell_y + baseline_offset - char_height + 2 * window_height
    IN  [ scale_x |-> 4 * window_width * ncols,
          scale_y |-> 5 * window_height * nrows,
          vertices |-> << <<char_x, char_y + char_height, 0, 0>>,
                          <<char_x + char_width, char_y + char_height, 1, 0>>,
                          <<char_x, char_y, 0, 1>>,
                          <<char_x + char_width, char_y, 1, 1>> >> ]

\* calculate_cursor_vertices: the four vertices <<x, y>> (z = 0), x in units
\* of 1/ncols and y in units of 1/nrows
calculate_cursor_vertices(window_width, window_height, nrows, ncols, cell) ==
    LET row == cell[1]
        col == cell[2]
        cell_width == 2
        cell_height == 2
        x == -ncols + col * cell_width
        y == nrows - (row + 1) * cell_height
    IN  << <<x, y + cell_height>>, <<x + cell_width, y + cell_height>>,
           <<x, y>>, <<x + cell_width, y>> >>

----------------------------------------------------------------------------
(* Inputs *)

Modifiers == {"Shift", "CapsLock"}

KeyEvent(key, action, modifiers) ==
    [key |-> key, action |-> action, modifiers |-> modifiers]

\* the key events the keyboard of the model can produce
PolledEvents ==
    { KeyEvent(Key_A, "Press", {}),
      KeyEvent(Key_A, "Repeat", {"Shift"}),
      KeyEvent(Key_Backspace, "Press", {}),
      KeyEvent(Key_Escape, "Press", {}),
      KeyEvent(Key_LeftShift, "Press", {"Shift"}),
      KeyEvent(Key_A, "Release", {}) }

\* character dimensions the font loader can hand to WindowState::new
CharDims ==
    { [width |-> 800, height |-> 600],
      [width |-> 400, height |-> 300],
      [width |-> 266, height |-> 300] }

\* framebuffer sizes the window system can report
FramebufferSizes == { <<800, 600>>, <<400, 600>> }

\* the scripted keyboard: Shift+A .. Shift+G
Script == <<65, 66, 67, 68, 69, 70, 71>>

SeqsUpTo(S, n) == UNION { [1..k -> S] : k \in 0..n }

IsEscapePress(e) == e.key = Key_Escape /\ e.action = "Press"
IsKeyArm(e) == ~IsEscapePress(e) /\ e.action \in {"Press", "Repeat"}
IsPush(e) == IsKeyArm(e) /\ key_ch(e.key, e.modifiers) # None
             /\ e.key # Key_Backspace

RECURSIVE Pushes(_)
Pushes(q) == IF q = <<>> THEN 0
             ELSE (IF IsPush(Head(q)) THEN 1 ELSE 0) + Pushes(Tail(q))

\* advance values (26.6 fixed point) the rasterizer can report for a glyph
AdvanceValues == {0, 64, 100, 640}

\* (*face).size.metrics.height values (26.6 fixed point)
MetricsHeights == {1280, 1920}

\* the WindowState before init has constructed it
NoWindow ==
    [ width |-> 0, height |-> 0,
      grid |-> [cell_width |-> 0, cell_height |-> 0, rows |-> 0, cols |-> 0],
      buffer |-> <<>>, display_offset |-> 0, next_cell |-> <<0, 0>> ]

\* no glyph handed over, no quad computed
NoQuad ==
    [ character |-> [size |-> <<0, 0>>, bearing |-> <<0, 0>>, advance |-> 0],
      scale_x |-> 0, scale_y |-> 0, vertices |-> <<>> ]

NoFrame == [glyphs |-> <<>>, cursor |-> None, passes |-> 0]
NoFont == [c |-> 0, max_advance |-> 0, max_height |-> 0, characters |-> <<>>]
NoFace == [metrics_height |-> 0, advance |-> <<>>]

----------------------------------------------------------------------------
(* The main loop *)

Init ==
    /\ pc = "main"
    /\ \E cd \in CharDims : ws = WindowState_new(InitWidth, InitHeight, cd)
    /\ queue = <<>>
    /\ should_close = FALSE
    /\ viewport = <<InitWidth, InitHeight>>
    /\ frame = NoFrame
    /\ script = <<>>
    /\ face = NoFace
    /\ font = NoFont
    /\ quad = NoQuad

\* TickStart, without the loop test
TickStart_ignoring_close ==
    /\ pc = "main"
    /\ pc' = "poll"
    /\ frame' = NoFrame
    /\ UNCHANGED <<ws, queue, should_close, viewport, script, face, font, quad>>

\* main: while !should_close() { tick } ; tick begins with swap_buffers
TickStart ==
    /\ pc = "main"
    /\ ~should_close
    /\ pc' = "poll"
    /\ frame' = NoFrame
    /\ UNCHANGED <<ws, queue, should_close, viewport, script, face, font, quad>>

\* main: the loop test fails
MainExit ==
    /\ pc = "main"
    /\ should_close
    /\ pc' = "exited"
    /\ UNCHANGED <<ws, queue, should_close, viewport, frame, script, face, font, quad>>

\* init: the framebuffer size callback, run from poll_events
FramebufferSizeCallback ==
    /\ pc = "poll"
    /\ \E size \in FramebufferSizes :
          /\ size # viewport
          /\ viewport' = size
    /\ UNCHANGED <<pc, ws, queue, should_close, frame, script, face, font, quad>>

\* the window system's close request, delivered during poll_events
CloseRequest ==
    /\ pc = "poll"
    /\ ~should_close
    /\ should_close' = TRUE
    /\ UNCHANGED <<pc, ws, queue, viewport, frame, script, face, font, quad>>

\* tick: poll_events puts the pending key events into the receiver
PollEvents ==
    /\ pc = "poll"
    /\ script = <<>>
    /\ \E evs \in SeqsUpTo(PolledEvents, MaxQueue) :
          /\ Len(queue) + Len(evs) <= MaxQueue
          /\ Len(ws.buffer) + Pushes(queue \o evs) <= MaxBuf
          /\ queue' = queue \o evs
    /\ pc' = "events"
    /\ UNCHANGED <<ws, should_close, viewport, frame, script, face, font, quad>>

\* tick: poll_events with the scripted keyboard, which types the next keys
\* of the script with Shift held
PollScript ==
    /\ pc = "poll"
    /\ \E k \in 0..Len(script) :
          /\ queue' = queue \o [i \in 1..k |-> KeyEvent(script[i], "Press", {"Shift"})]
          /\ script' = SubSeq(script, k + 1, Len(script))
    /\ pc' = "events"
    /\ UNCHANGED <<ws, should_close, viewport, frame, face, font, quad>>

\* tick: the Escape arm
HandleEscape ==
    /\ pc = "events"
    /\ queue # <<>>
    /\ IsEscapePress(Head(queue))
    /\ should_close' = TRUE
    /\ queue' = Tail(queue)
    /\ UNCHANGED <<pc, ws, viewport, frame, script, face, font, quad>>

\* HandleKey, without the Backspace arm: the placeholder is pushed
HandleKey_push_placeholder ==
    /\ pc = "events"
    /\ queue # <<>>
    /\ IsKeyArm(Head(queue))
    /\ LET ch == key_ch(Head(queue).key, Head(queue).modifiers)
       IN  /\ ch # None
           /\ ws' = push(ws, unwrap(ch))
    /\ queue' = Tail(queue)
    /\ UNCHANGED <<pc, should_close, viewport, frame, script, face, font, quad>>

\* tick: the key arm, ch is Some: Backspace pops, every other key pushes
HandleKey ==
    /\ pc = "events"
    /\ queue # <<>>
    /\ IsKeyArm(Head(queue))
    /\ LET key == Head(queue).key
           ch == key_ch(key, Head(queue).modifiers)
       IN  /\ ch # None
           /\ ws' = IF key = Key_Backspace THEN pop(ws) ELSE push(ws, unwrap(ch))
    /\ queue' = Tail(queue)
    /\ UNCHANGED <<pc, should_close, viewport, frame, script, face, font, quad>>

\* tick: the key arm, ch is None: `return` leaves tick
HandleUnrecognized ==
    /\ pc = "events"
    /\ queue # <<>>
    /\ IsKeyArm(Head(queue))
    /\ key_ch(Head(queue).key, Head(queue).modifiers) = None
    /\ queue' = Tail(queue)
    /\ pc' = "main"
    /\ UNCHANGED <<ws, should_close, viewport, frame, script, face, font, quad>>

\* tick: the `_ => {}` arm
HandleIgnored ==
    /\ pc = "events"
    /\ queue # <<>>
    /\ ~IsEscapePress(Head(queue))
    /\ ~IsKeyArm(Head(queue))
    /\ queue' = Tail(queue)
    /\ UNCHANGED <<pc, ws, should_close, viewport, frame, script, face, font, quad>>

\* tick: flush_messages is exhausted
EventsDone ==
    /\ pc = "events"
    /\ queue = <<>>
    /\ pc' = "render"
    /\ UNCHANGED <<ws, queue, should_close, viewport, frame, script, face, font, quad>>

\* tick: gl::Clear, then render_screen_buffer
RenderPass ==
    /\ pc = "render"
    /\ LET r == render_screen_buffer(ws)
       IN  /\ ws' = r.ws
           /\ frame' = [frame EXCEPT !.glyphs = r.draws, !.passes = @ + 1]
           /\ pc' = IF r.ok THEN "cursor" ELSE "panicked"
    /\ UNCHANGED <<queue, should_close, viewport, script, face, font, quad>>

\* tick: calculate_cursor_vertices at get_next_cell, render_cursor
DrawCursor ==
    /\ pc = "cursor"
    /\ frame' = [frame EXCEPT !.cursor = Some(get_next_cell(ws))]
    /\ pc' = "main"
    /\ UNCHANGED <<ws, queue, should_close, viewport, script, face, font, quad>>

Next ==
    \/ TickStart
    \/ MainExit
    \/ FramebufferSizeCallback
    \/ CloseRequest
    \/ PollEvents
    \/ HandleEscape
    \/ HandleKey
    \/ HandleUnrecognized
    \/ HandleIgnored
    \/ EventsDone
    \/ RenderPass
    \/ DrawCursor

Spec == Init /\ [][Next]_vars

----------------------------------------------------------------------------
(* The scripted keyboard: only key presses that append, in script order *)

InitScript ==
    /\ pc = "main"
    /\ \E cd \in CharDims : ws = WindowState_new(InitWidth, InitHeight, cd)
    /\ queue = <<>>
    /\ should_close = FALSE
    /\ viewport = <<InitWidth, InitHeight>>
    /\ frame = NoFrame
    /\ script = Script
    /\ face = NoFace
    /\ font = NoFont
    /\ quad = NoQuad

NextScript ==
    \/ TickStart
    \/ PollScript
    \/ HandleKey
    \/ EventsDone
    \/ RenderPass
    \/ DrawCursor

SpecScript == InitScript /\ [][NextScript]_vars

----------------------------------------------------------------------------
(* Cancellation runs: the scripted keyboard types a short sequence of keys  *)
(* that may hold Escape; the loop keeps running (weak fairness) until the   *)
(* program has left it                                                      *)

CloseKeys == {Key_A, Key_Backspace, Key_Escape, Key_LeftShift}

InitClose ==
    /\ pc = "main"
    /\ \E cd \in CharDims : ws = WindowState_new(InitWidth, InitHeight, cd)
    /\ queue = <<>>
    /\ should_close = FALSE
    /\ viewport = <<InitWidth, InitHeight>>
    /\ frame = NoFrame
    /\ script \in [1..CloseScriptLen -> CloseKeys]
    /\ face = NoFace
    /\ font = NoFont
    /\ quad = NoQuad

NextClose ==
    \/ TickStart
    \/ MainExit
    \/ PollScript
    \/ HandleEscape
    \/ HandleKey
    \/ HandleUnrecognized
    \/ EventsDone
    \/ RenderPass
    \/ DrawCursor

SpecClose == InitClose /\ [][NextClose]_vars /\ WF_vars(NextClose)

----------------------------------------------------------------------------
(* Key runs: after a few characters typed one per iteration, one iteration *)
(* receives one key event out of every key, action and modifier set        *)

\* the values of glfw::Key
GlfwKeys ==
    {-1, 32, 39} \cup (44..57) \cup {59, 61} \cup (65..93) \cup {96, 161, 162}
    \cup (256..269) \cup (280..284) \cup (290..314) \cup (320..336)
    \cup (340..348)

KeyActions == {"Press", "Release", "Repeat"}

AllKeyEvents ==
    { KeyEvent(k, a, m) : k \in GlfwKeys, a \in KeyActions, m \in SUBSET Modifiers }

\* what has been typed before the iteration under study
KeyPrefixes == { <<>>, <<97>>, <<98, 65>> }

\* the WindowState after iterations that each push one character and render
RECURSIVE TypedState(_, _)
TypedState(w, typed) ==
    IF typed = <<>> THEN w
    ELSE TypedState(render_screen_buffer(push(w, Head(typed))).ws, Tail(typed))

InitKeys ==
    /\ pc = "poll"
    /\ \E cd \in CharDims, typed \in KeyPrefixes :
          ws = TypedState(WindowState_new(InitWidth, InitHeight, cd), typed)
    /\ queue = <<>>
    /\ should_close = FALSE
    /\ viewport = <<InitWidth, InitHeight>>
    /\ frame = NoFrame
    /\ script = <<>>
    /\ face = NoFace
    /\ font = NoFont
    /\ quad = NoQuad

\* tick: poll_events delivers one key event
PollAnyKey ==
    /\ pc = "poll"
    /\ \E e \in AllKeyEvents : queue' = Append(queue, e)
    /\ pc' = "events"
    /\ UNCHANGED <<ws, should_close, viewport, frame, script, face, font, quad>>

NextKeys ==
    \/ PollAnyKey
    \/ HandleEscape
    \/ HandleKey
    \/ HandleUnrecognized
    \/ HandleIgnored
    \/ EventsDone
    \/ RenderPass
    \/ DrawCursor

SpecKeys == InitKeys /\ [][NextKeys]_vars

----------------------------------------------------------------------------
(* Quad runs: one glyph of bounded metrics is placed in one cell of a grid *)

\* character dimensions of the grids 24x80, 2x3 and 1x1
QuadCharDims ==
    { [width |-> 10, height |-> 25],
      [width |-> 266, height |-> 300],
      [width |-> 800, height |-> 600] }

\* glyph metrics: bitmap size and bearing in pixels, advance in 26.6
QuadCharacters ==
    [ size : {0, 10, 400, 1000} \X {0, 20, 700},
      bearing : {0} \X {0, 15},
      advance : {0, 640, 6400, 128000} ]

\* the cells of the corners and of the middle column
QuadCells(g) == {0, g.rows - 1} \X {0, g.cols \div 2, g.cols - 1}

InitQuad ==
    /\ pc = "quad"
    /\ \E cd \in QuadCharDims :
          LET w == WindowState_new(InitWidth, InitHeight, cd)
          IN  \E cell \in QuadCells(w.grid) : ws = [w EXCEPT !.next_cell = cell]
    /\ queue = <<>>
    /\ should_close = FALSE
    /\ viewport = <<InitWidth, InitHeight>>
    /\ frame = NoFrame
    /\ script = <<>>
    /\ face = NoFace
    /\ font = NoFont
    /\ \E ch \in QuadCharacters : quad = [NoQuad EXCEPT !.character = ch]

\* render_screen_buffer: the call of calculate_textured_quad_vertices
CalculateQuad ==
    /\ pc = "quad"
    /\ LET q == calculate_textured_quad_vertices(get_next_cell(ws), quad.character,
                    RenderWidth, RenderHeight, ws.grid.rows, ws.grid.cols)
       IN  quad' = [ character |-> quad.character, scale_x |-> q.scale_x,
                     scale_y |-> q.scale_y, vertices |-> q.vertices ]
    /\ pc' = "quad_done"
    /\ UNCHANGED <<ws, queue, should_close, viewport, frame, script, face, font>>

NextQuad ==
    \/ CalculateQuad

SpecQuad == InitQuad /\ [][NextQuad]_vars

----------------------------------------------------------------------------
(* load_font_chars *)

InitFont ==
    /\ pc = "load_font"
    /\ ws = NoWindow
    /\ queue = <<>>
    /\ should_close = FALSE
    /\ viewport = <<InitWidth, InitHeight>>
    /\ frame = NoFrame
    /\ script = <<>>
    /\ face \in [ metrics_height : MetricsHeights,
                  advance : [1..RepertoireSize -> AdvanceValues] ]
    /\ font = NoFont
    /\ quad = NoQuad

\* load_font_chars: one iteration of `for c in 0..127`
LoadChar ==
    /\ pc = "load_font"
    /\ font.c < RepertoireSize
    /\ LET advance_x == face.advance[font.c + 1]
       IN  font' = [ c |-> font.c + 1,
                     max_height |->
                         IF shr6(face.metrics_height) > font.max_height
                         THEN shr6(face.metrics_height) ELSE font.max_height,
                     max_advance |->
                         IF advance_x > font.max_advance
                         THEN shr6(advance_x) ELSE font.max_advance,
                     characters |->
                         Append(font.characters, [advance |-> advance_x]) ]
    /\ UNCHANGED <<pc, ws, queue, should_close, viewport, frame, script, face, quad>>

\* load_font_chars: FT_Load_Char reports an error
LoadCharError ==
    /\ pc = "load_font"
    /\ font.c < RepertoireSize
    /\ pc' = "panicked"
    /\ UNCHANGED <<ws, queue, should_close, viewport, frame, script, face, font, quad>>

\* load_font_chars: the loop is over, the triple is returned
LoadDone ==
    /\ pc = "load_font"
    /\ font.c = RepertoireSize
    /\ pc' = "font_loaded"
    /\ UNCHANGED <<ws, queue, should_close, viewport, frame, script, face, font, quad>>

NextFont ==
    \/ LoadChar
    \/ LoadCharError
    \/ LoadDone

SpecFont == InitFont /\ [][NextFont]_vars

----------------------------------------------------------------------------
(* Properties *)

Visible(w) == Len(w.buffer) - w.display_offset
Cells(w) == w.grid.rows * w.grid.cols
Chars(draws) == [i \in 1..Len(draws) |-> draws[i][1]]

\* C1: after each render pass that follows any number of appends, the
\* visible character count buffer.length - display_offset is at most
\* rows*cols + 1.
C1_ScrollBound ==
    pc = "cursor" => Visible(ws) <= Cells(ws) + 1

\* C2: no render pass fails: display_offset <= buffer.length whenever a
\* render pass starts, and the pass never panics on its slices.
C2_NoRenderFailure ==
    /\ pc # "panicked"
    /\ pc = "render" => ws.display_offset <= Len(ws.buffer)

\* C3: in every reachable state display_offset is a multiple of the grid's
\* current cols.
C3_OffsetMultipleOfCols ==
    ws.display_offset % ws.grid.cols = 0

\* C3 witness: the text has scrolled on a grid of several columns and the
\* framebuffer has been resized.
C3_Witness ==
    /\ ws.display_offset > 0
    /\ ws.grid.cols > 1
    /\ viewport # <<InitWidth, InitHeight>>
    /\ pc = "cursor"

\* C4: a second render pass right after a completed one, with no buffer
\* mutation in between, yields the same display_offset, the same next_cell
\* and the same emitted (character, row, col) triples.
C4_RenderIdempotent ==
    pc = "cursor" =>
        LET again == render_screen_buffer(ws)
        IN  /\ again.ok
            /\ again.ws.display_offset = ws.display_offset
            /\ again.ws.next_cell = ws.next_cell
            /\ again.draws = frame.glyphs

\* C5: from a state that has just completed a render pass, append(c);
\* delete_last(); render pass -- with or without a render pass between the
\* append and the delete -- yields the buffer content and the next_cell of
\* before the append.
C5_AppendDeleteRoundTrip ==
    pc = "cursor" =>
        \A c \in {65, 97} :
            LET direct == render_screen_buffer(pop(push(ws, c)))
                between == render_screen_buffer(push(ws, c))
                after == render_screen_buffer(pop(between.ws))
            IN  /\ direct.ok
                /\ direct.ws.buffer = ws.buffer
                /\ direct.ws.next_cell = ws.next_cell
                /\ between.ok
                /\ after.ok
                /\ after.ws.buffer = ws.buffer
                /\ after.ws.next_cell = ws.next_cell

C7_Boundary ==
    (ws.grid.rows = 2 /\ ws.grid.cols = 3) =>
        /\ ws.display_offset \in {0, 3}
        /\ (pc = "cursor" /\ ws.buffer = Script) =>
              /\ ws.display_offset = 3
              /\ frame.glyphs = << <<68, 0, 0>>, <<69, 0, 1>>,
                                   <<70, 0, 2>>, <<71, 1, 0>> >>

\* C7 witness: the whole script is in the buffer of the 2x3 grid and a
\* render pass has run after the last append.
C7_Witness ==
    /\ pc = "cursor"
    /\ ws.grid.rows = 2
    /\ ws.grid.cols = 3
    /\ ws.buffer = Script
    /\ script = <<>>

\* C8: after a framebuffer-size event the grid's rows and cols are
\* floor(h / cell_height) and floor(w / cell_width) before the next render
\* pass, and the resize leaves the buffer alone.
C8_ResizeRecomputesGrid ==
    [][/\ viewport' # viewport => ws'.buffer = ws.buffer
       /\ pc' = "render" =>
             ws'.grid = update_size(ws', viewport'[1], viewport'[2]).grid]_vars

\* C9: the max_advance returned by load_font_chars is at least the pixel
\* advance (advance >> 6) of every glyph in the cache.
C9_MaxAdvance ==
    pc = "font_loaded" =>
        \A i \in 1..Len(font.characters) :
            font.max_advance >= shr6(font.characters[i].advance)

\* C10: an iteration of the main loop applies every polled key event, then
\* performs exactly one render pass and one cursor draw; it never ends
\* without rendering a frame.
C10_TickOrder ==
    [][/\ pc = "events" => pc' \in {"events", "render"}
       /\ pc = "render" => queue = <<>>
       /\ (pc # "main" /\ pc' = "main") =>
             /\ pc = "cursor"
             /\ frame'.passes = 1
             /\ frame'.cursor # None]_vars

C12_DeleteLast ==
    [][(/\ pc = "events"
        /\ queue # <<>>
        /\ Head(queue).key = Key_Backspace
        /\ Head(queue).action \in {"Press", "Repeat"})
       => /\ ws'.buffer = IF ws.buffer = <<>> THEN <<>>
                          ELSE SubSeq(ws.buffer, 1, Len(ws.buffer) - 1)
          /\ pc' = "events"]_vars

\* C12 witness: "bA" had been typed, a Backspace has removed the 'A' and
\* the frame has been rendered.
C12_Witness ==
    /\ pc = "cursor"
    /\ ws.buffer = <<98>>

\* C17: every character the input step can append -- the result of
\* key_to_char, key_to_capital_char or key_to_symbol chosen for any key and
\* modifier set -- is in the glyph cache's repertoire 0..126, so every
\* buffered character has a glyph and every drawn glyph is of the cache.
C17_InputInRepertoire ==
    /\ \A i \in 1..Len(ws.buffer) : ws.buffer[i] \in Repertoire
    /\ \A i \in 1..Len(frame.glyphs) : frame.glyphs[i][1] \in Repertoire
    /\ (pc = "events" /\ queue # <<>>) =>
          LET ch == key_ch(Head(queue).key, Head(queue).modifiers)
          IN  ch # None => unwrap(ch) \in Repertoire

\* C17 witness: a Tab, the lowest character code of the tables, has been
\* appended and its glyph drawn.
C17_Witness ==
    /\ pc = "cursor"
    /\ frame.glyphs # <<>>
    /\ frame.glyphs[Len(frame.glyphs)][1] = 9

\* C13: for a cell with col < cols and a glyph of non-negative bitmap width
\* and advance, the quad's x extent lies in the cell:
\* cell_x <= left x and right x <= cell_x + cell_width_ndc, with
\* cell_width_ndc = 2/cols and cell_x = -1 + col * cell_width_ndc.
C13_QuadInCell ==
    pc = "quad_done" =>
        LET cell_width_ndc == (2 * quad.scale_x) \div ws.grid.cols
            cell_x == -quad.scale_x + ws.next_cell[2] * cell_width_ndc
            left == {quad.vertices[1][1], quad.vertices[3][1]}
            right == {quad.vertices[2][1], quad.vertices[4][1]}
        IN  /\ \A x \in left : cell_x <= x
            /\ \A x \in right : x <= cell_x + cell_width_ndc

\* C13 witness: the quad of a glyph of bitmap size (10,20) in the 80x24 grid
\* of the 800x600 viewport has been computed.
C13_Witness ==
    /\ pc = "quad_done"
    /\ ws.grid.cols = 80
    /\ ws.grid.rows = 24
    /\ quad.character.size = <<10, 20>>
    /\ quad.character.advance = 640
    /\ quad.vertices # <<>>

\* C14: a render pass emits exactly content[display_offset..] (offset after
\* the pass's scroll) in buffer order, the k-th character at cell
\* (k div cols, k mod cols); afterwards next_cell = (n div cols, n mod cols)
\* for the n emitted characters, and the cursor of the frame is drawn there.
C14_CellWalk ==
    LET cols == ws.grid.cols
        n == Len(frame.glyphs)
    IN  /\ pc = "cursor" =>
              /\ n = Visible(ws)
              /\ \A k \in 0..(n - 1) :
                    frame.glyphs[k + 1] =
                        <<ws.buffer[ws.display_offset + k + 1], k \div cols, k % cols>>
              /\ ws.next_cell = <<n \div cols, n % cols>>
        /\ (pc = "main" /\ frame.cursor # None) =>
              /\ unwrap(frame.cursor) = ws.next_cell
              /\ unwrap(frame.cursor) = <<n \div cols, n % cols>>

\* C14 witness: a frame of three characters on a grid of two columns: the
\* walk has wrapped and the cursor is drawn at (1,1).
C14_Witness ==
    /\ pc = "main"
    /\ ws.grid.cols = 2
    /\ Len(frame.glyphs) = 3
    /\ frame.cursor = Some(<<1, 1>>)

\* C15: the buffer changes only in the input step (a key press or repeat
\* being handled) and not in a render pass; display_offset and next_cell
\* change only in a render pass, not on append, delete or ignored events.
C15_MutationOwnership ==
    [][/\ ws'.buffer # ws.buffer =>
             (pc = "events" /\ queue # <<>> /\ IsKeyArm(Head(queue)))
       /\ pc = "render" => ws'.buffer = ws.buffer
       /\ (ws'.display_offset # ws.display_offset \/ ws'.next_cell # ws.next_cell)
             => pc = "render"
       /\ pc = "events" =>
             (ws'.display_offset = ws.display_offset /\ ws'.next_cell = ws.next_cell)]_vars

\* C15 witness: characters have been appended to a fresh buffer and the
\* render pass is about to start with next_cell and display_offset untouched.
C15_Witness ==
    /\ pc = "render"
    /\ Len(ws.buffer) >= 2
    /\ ws.next_cell = <<0, 0>>
    /\ ws.display_offset = 0

\* C16: after every render pass next_cell = (row, col) has row < rows and
\* col < cols, and the cursor quad of the frame lies within [-1,1]x[-1,1].
C16_CursorInGrid ==
    /\ pc = "cursor" =>
          (ws.next_cell[1] < ws.grid.rows /\ ws.next_cell[2] < ws.grid.cols)
    /\ (pc = "main" /\ frame.cursor # None) =>
          LET v == calculate_cursor_vertices(ws.width, ws.height, ws.grid.rows,
                                             ws.grid.cols, unwrap(frame.cursor))
          IN  \A i \in 1..Len(v) :
                  /\ -ws.grid.cols <= v[i][1] /\ v[i][1] <= ws.grid.cols
                  /\ -ws.grid.rows <= v[i][2] /\ v[i][2] <= ws.grid.rows

====
